---- MODULE Spec2Model ----
(***************************************************************************)
(* A model of dictionaries/generate/convert_enwiktionary.py and            *)
(* dictionaries/generate/sort.py.                                          *)
(*                                                                         *)
(* A Python str is a sequence of one-character strings, so that slicing,   *)
(* joining, stripping and splitting are computed character by character.   *)
(***************************************************************************)
EXTENDS Integers, Sequences, FiniteSets, TLC

\* Longest phrase that is enumerated exhaustively.
MaxLen == 5

\* The characters of the exhaustively enumerated phrases.
Chars == {"a", " ", "\n", "(", ")", "/"}

(***************************************************************************)
(* Characters and strings                                                  *)
(***************************************************************************)

\* str.isspace() / the regex class \s, over the characters of the model.
IsSpace(c) == c \in {" ", "\n", "\t"}

\* The code point of a character: the order Python compares strings by.
Code(c) ==
    CASE c = "\t" -> 9
      [] c = "\n" -> 10
      [] c = " " -> 32
      [] c = "(" -> 40
      [] c = ")" -> 41
      [] c = "/" -> 47
      [] c = "[" -> 91
      [] c = "]" -> 93
      [] c = "a" -> 97
      [] c = "b" -> 98
      [] c = "c" -> 99
      [] c = "x" -> 120
      [] c = "{" -> 123
      [] c = "}" -> 125

\* The element of a one-element set.  Only({F(x) : x \in {e}}) computes e once
\* and hands its value to F, as a call hands over the value of its argument.
Only(S) == CHOOSE v \in S : TRUE

\* str.strip(): from the first to the last character that is not whitespace.
Strip(s) ==
    LET solid == {n \in 1..Len(s) : ~IsSpace(s[n])}
    IN IF solid = {} THEN <<>>
       ELSE SubSeq(s, CHOOSE n \in solid : \A m \in solid : n <= m,
                      CHOOSE n \in solid : \A m \in solid : n >= m)

RECURSIVE SplitAt(_, _, _, _)
SplitAt(s, n, cur, acc) ==
    IF n > Len(s)
    THEN IF cur # <<>> THEN Append(acc, cur) ELSE acc
    ELSE IF IsSpace(s[n])
         THEN Only({SplitAt(s, n + 1, <<>>, x) :
                       x \in {IF cur # <<>> THEN Append(acc, cur) ELSE acc}})
         ELSE Only({SplitAt(s, n + 1, x, acc) : x \in {Append(cur, s[n])}})

\* str.split() without arguments: the maximal runs of non-whitespace.
Split(s) == Only({SplitAt(x, 1, <<>>, <<>>) : x \in {s}})

RECURSIVE ReSplitAt(_, _, _, _)
ReSplitAt(s, n, cur, acc) ==
    IF n > Len(s)
    THEN Append(acc, cur)
    ELSE IF IsSpace(s[n])
         THEN IF n > 1 /\ IsSpace(s[n - 1])
              THEN ReSplitAt(s, n + 1, cur, acc)
              ELSE Only({ReSplitAt(s, n + 1, <<>>, x) : x \in {Append(acc, cur)}})
         ELSE Only({ReSplitAt(s, n + 1, x, acc) : x \in {Append(cur, s[n])}})

\* re.split(r"\s+", s): the pieces between whitespace runs, empty ones kept.
ReSplit(s) == Only({ReSplitAt(x, 1, <<>>, <<>>) : x \in {s}})

RECURSIVE JoinAt(_, _, _, _)
JoinAt(ss, sep, n, acc) ==
    IF n > Len(ss) THEN acc
    ELSE Only({JoinAt(ss, sep, n + 1, x) :
                  x \in {IF n = 1 THEN ss[1] ELSE acc \o sep \o ss[n]}})

\* sep.join(ss)
Join(ss, sep) == Only({JoinAt(x, sep, 1, <<>>) : x \in {ss}})

normalize_space(s) == Join(Split(s), <<" ">>)

\* One more segment in front of the combinations of the segments after it.
ProductWith(h, rest) ==
    [n \in 1..(Len(h) * Len(rest)) |->
        <<h[((n - 1) \div Len(rest)) + 1]>> \o rest[((n - 1) % Len(rest)) + 1]]

RECURSIVE ProductFrom(_, _)
ProductFrom(segs, n) ==
    IF n > Len(segs) THEN << <<>> >>
    ELSE Only({ProductWith(segs[n], rest) : rest \in {ProductFrom(segs, n + 1)}})

\* itertools.product(*segs) as a list: the last segment varies fastest.
Product(segs) == Only({ProductFrom(x, 1) : x \in {segs}})

RECURSIVE DedupFrom(_, _, _)
DedupFrom(xs, n, acc) ==
    IF n > Len(xs) THEN acc
    ELSE Only({DedupFrom(xs, n + 1, x) :
                  x \in {IF \E m \in 1..Len(acc) : acc[m] = xs[n] THEN acc
                         ELSE Append(acc, xs[n])}})

\* list(dict.fromkeys(xs)): the first occurrence of each element, in order.
Dedup(xs) == Only({DedupFrom(x, 1, <<>>) : x \in {xs}})

Range(xs) == {xs[n] : n \in 1..Len(xs)}

(***************************************************************************)
(* generate_combinations: the nested functions                             *)
(***************************************************************************)

RECURSIVE TokenizeAt(_, _, _, _, _)
TokenizeAt(p, n, toks, current_token, level) ==
    IF n > Len(p)
    THEN IF current_token # <<>> THEN Append(toks, current_token) ELSE toks
    ELSE LET char == p[n] IN
         IF char = "("
         THEN Only({TokenizeAt(p, n + 1, toks, x, level + 1) :
                       x \in {Append(current_token, char)}})
         ELSE IF char = ")"
         THEN Only({TokenizeAt(p, n + 1, toks, x, level - 1) :
                       x \in {Append(current_token, char)}})
         ELSE IF IsSpace(char) /\ level = 0
         THEN Only({TokenizeAt(p, n + 1, x, <<>>, level) :
                       x \in {IF current_token # <<>> THEN Append(toks, current_token)
                              ELSE toks}})
         ELSE Only({TokenizeAt(p, n + 1, toks, x, level) :
                       x \in {Append(current_token, char)}})

tokenize(p) == TokenizeAt(p, 1, <<>>, <<>>, 0)

IsParen(c) == c \in {"(", ")"}

\* re.fullmatch(r"\([^()]*\)", token)
is_parenthetical(token) ==
    /\ Len(token) >= 2
    /\ token[1] = "("
    /\ token[Len(token)] = ")"
    /\ \A n \in 2..(Len(token) - 1) : ~IsParen(token[n])

is_attached_parenthetical(token) ==
    /\ \E n \in 1..Len(token) : token[n] = "("
    /\ \E n \in 1..Len(token) : token[n] = ")"
    /\ ~is_parenthetical(token)

\* The positions of the parentheses of a token, ascending.
ParenPositions(token) ==
    SelectSeq([n \in 1..Len(token) |-> n], LAMBDA n : IsParen(token[n]))

\* re.match(r"^([^()]*?)\(([^()]*?)\)(.*)$", token): the first parenthesis is an
\* opening one and the next parenthesis closes it; "." matches no line break,
\* and "$" also matches before a line break that ends the token.
GroupMatch(token) ==
    LET ps == ParenPositions(token)
        after == SubSeq(token, ps[2] + 1, Len(token))
        body == IF after # <<>> /\ after[Len(after)] = "\n"
                THEN SubSeq(after, 1, Len(after) - 1)
                ELSE after
    IN IF /\ Len(ps) >= 2
          /\ token[ps[1]] = "("
          /\ token[ps[2]] = ")"
          /\ \A n \in 1..Len(body) : body[n] # "\n"
       THEN [matched |-> TRUE,
             prefix |-> SubSeq(token, 1, ps[1] - 1),
             content |-> SubSeq(token, ps[1] + 1, ps[2] - 1),
             suffix |-> body]
       ELSE [matched |-> FALSE, prefix |-> <<>>, content |-> <<>>, suffix |-> <<>>]

\* process_standalone_group with t[1:] for t[1:-1]: the ")" stays in the content.
process_standalone_group_closing(group) ==
    IF group = <<>> THEN << <<>> >>
    ELSE LET contents == [n \in 1..Len(group) |-> SubSeq(group[n], 2, Len(group[n]))]
             combinations ==
                 [n \in 1..(Len(contents) + 1) |->
                     Strip(Join(SubSeq(contents, n, Len(contents)), <<" ">>))]
         IN SelectSeq(combinations, LAMBDA c : c # <<>> \/ combinations # << <<>> >>)

\* process_standalone_group with the filter "if c": no empty candidate.
process_standalone_group_nonempty(group) ==
    IF group = <<>> THEN << <<>> >>
    ELSE LET contents == [n \in 1..Len(group) |-> SubSeq(group[n], 2, Len(group[n]) - 1)]
             combinations ==
                 [n \in 1..(Len(contents) + 1) |->
                     Strip(Join(SubSeq(contents, n, Len(contents)), <<" ">>))]
         IN SelectSeq(combinations, LAMBDA c : c # <<>>)

process_standalone_group(group) ==
    IF group = <<>> THEN << <<>> >>
    ELSE LET contents == [n \in 1..Len(group) |-> SubSeq(group[n], 2, Len(group[n]) - 1)]
             combinations ==
                 [n \in 1..(Len(contents) + 1) |->
                     Strip(Join(SubSeq(contents, n, Len(contents)), <<" ">>))]
         IN SelectSeq(combinations, LAMBDA c : c # <<>> \/ combinations # << <<>> >>)

\* a < b for two strings: the comparison sorted() makes, code point by code point.
StrLess(a, b) ==
    \E n \in 1..Len(b) :
        /\ \A m \in 1..(n - 1) : m <= Len(a) /\ a[m] = b[m]
        /\ (n > Len(a) \/ Code(a[n]) < Code(b[n]))

\* SortedPhrases without the sort.
SortedPhrases_unsorted(order) == order

\* sorted(list(final_combinations)): stable, equal elements keep their order.
SortedPhrases(order) ==
    LET rank(n) == 1 + Cardinality({m \in 1..Len(order) :
                                     \/ StrLess(order[m], order[n])
                                     \/ (~StrLess(order[n], order[m]) /\ m < n)})
    IN [p \in 1..Len(order) |-> order[CHOOSE n \in 1..Len(order) : rank(n) = p]]

RECURSIVE SetToSeq(_)
SetToSeq(S) ==
    IF S = {} THEN <<>>
    ELSE Only({<<x>> \o SetToSeq(S \ {x}) : x \in {CHOOSE y \in S : TRUE}})

Reverse(xs) == [n \in 1..Len(xs) |-> xs[Len(xs) + 1 - n]]

Rotate(xs, r) == [n \in 1..Len(xs) |-> xs[((n + r - 1) % Len(xs)) + 1]]

\* list(S): the elements of a set in an order the program does not control.
IterationOrders(S) ==
    IF S = {} THEN {<<>>}
    ELSE UNION {{Rotate(xs, r) : r \in 0..(Len(xs) - 1)}
                \cup {Rotate(Reverse(xs), r) : r \in 0..(Len(xs) - 1)} :
                xs \in {SetToSeq(S)}}

\* c in s.
Contains(s, c) == \E n \in 1..Len(s) : s[n] = c

(***************************************************************************)
(* The inputs                                                              *)
(***************************************************************************)

\* Every phrase of at most MaxLen characters.
ShortPhrases == UNION {[1..n -> Chars] : n \in 0..MaxLen}

\* Inputs of run_tests and longer phrases.
LongPhrases ==
    { <<"a", "(", "a", ")", "x", "(", "b", ")", "(", "c", ")">>,
      <<"(", "a", ")", " ", "(", "b", ")", " ", "c">>,
      <<"(", "a", ")", " ", "(", "b", ")", " ", "(", "c", ")">>,
      <<"(", " ", "a", " ", "b", " ", ")", " ", " ", "c", " ">>,
      <<"(", "a", " ", "b", ")", " ", "c", " ", "/", " ", "x", " ", "b">>,
      <<"(", "a", " ", "/", " ", "b", ")", " ", "c">>,
      <<"a", " ", "/", " ", "b", " ", "/", " ", "c", " ", "x">>,
      <<"a", " ", "/", " ", "b", " ", "c", " ", "/", " ", "x">>,
      <<"a", " ", "(", "b", ")", " ", "(", "c", ")", " ", "x", " ", "/", " ", "b">>,
      <<"x", "(", "a", " ", "b", ")">>,
      <<"x", "(", "a", ")", "(", "b", "\n", "c", ")">>,
      <<"(", "a", ")", "(", "b", ")", " ", "x">>,
      <<"a", " ", "/", " ", "b", " ", "/">>,
      <<"a", " ", "/", " ", "/", " ", "b">>,
      <<")", " ", "(", "a", ")", " ", "b">>,
      <<"b", " ", "a", " ", "/", " ", "a", " ", "b">> }

Phrases == ShortPhrases \cup LongPhrases

(***************************************************************************)
(* generate_combinations as a state machine                                *)
(***************************************************************************)

VARIABLES
    phrase,                 \* the argument
    pc,                     \* the position in generate_combinations
    tokens,                 \* tokenize(phrase)
    i,                      \* the index of both scans, counted from 1
    group,                  \* the run of standalone parentheticals scanned last
    segments,               \* the list of candidate lists being built
    calls,                  \* the frames of process_attached_parenthetical
    intermediate_phrases,
    k,                      \* the intermediate phrase the slash stage is at
    words,
    current_alternatives,
    final_combinations,
    result                  \* the returned list

\* remove_unmatched_brackets, which shares phrase, i and result
VARIABLES
    stack,                  \* the open brackets, as <<char, position>>
    unmatched               \* the positions to delete

bracketVars == <<stack, unmatched>>

BracketsIdle ==
    /\ stack = <<>>
    /\ unmatched = {}

\* sort.py's process_file, which shares i
VARIABLES
    lines,                  \* f.readlines()
    valid_lines,
    sorted_lines,
    prev_line,
    stdout,                 \* the lines printed, in order
    stderr

sortVars == <<lines, valid_lines, sorted_lines, prev_line, stdout, stderr>>

None == <<"None">>

SortIdle ==
    /\ lines = <<>>
    /\ valid_lines = <<>>
    /\ sorted_lines = <<>>
    /\ prev_line = None
    /\ stdout = <<>>
    /\ stderr = <<>>

\* convert_enwiktionary.py's process_file, which shares lines
VARIABLES
    lang1,
    lang2,
    line_count,             \* the number of lines read
    in_block,
    lang1_words,
    lang2_words,
    word_pairs

extractVars == <<lang1, lang2, line_count, in_block, lang1_words, lang2_words,
                 word_pairs>>

ExtractIdle ==
    /\ lang1 = <<>>
    /\ lang2 = <<>>
    /\ line_count = 0
    /\ in_block = FALSE
    /\ lang1_words = {}
    /\ lang2_words = {}
    /\ word_pairs = <<>>

gcVars == <<phrase, pc, tokens, i, group, segments, calls, intermediate_phrases,
            k, words, current_alternatives, final_combinations, result>>

GcInit ==
    /\ phrase \in Phrases
    /\ pc = "start"
    /\ tokens = <<>>
    /\ i = 1
    /\ group = <<>>
    /\ segments = <<>>
    /\ calls = <<>>
    /\ intermediate_phrases = <<>>
    /\ k = 1
    /\ words = <<>>
    /\ current_alternatives = <<>>
    /\ final_combinations = {}
    /\ result = <<>>
    /\ BracketsIdle
    /\ SortIdle
    /\ ExtractIdle

\* Lines 103-105 and 176-180: the empty input returns, any other is tokenized.
Enter ==
    /\ pc = "start"
    /\ IF Strip(phrase) = <<>>
       THEN /\ pc' = "done"
            /\ UNCHANGED tokens
       ELSE /\ pc' = "scan"
            /\ tokens' = tokenize(phrase)
    /\ UNCHANGED <<bracketVars, sortVars, extractVars>>
    /\ UNCHANGED <<phrase, i, group, segments, calls, intermediate_phrases, k, words,
                   current_alternatives, final_combinations, result>>

\* Lines 182-183: an attached parenthetical is handed to
\* process_attached_parenthetical.
ScanAttached ==
    /\ pc = "scan"
    /\ i <= Len(tokens)
    /\ is_attached_parenthetical(tokens[i])
    /\ calls' = <<[token |-> tokens[i], results |-> <<>>, at |-> "enter"]>>
    /\ pc' = "call"
    /\ UNCHANGED <<bracketVars, sortVars, extractVars>>
    /\ UNCHANGED <<phrase, tokens, i, group, segments, intermediate_phrases, k, words,
                   current_alternatives, final_combinations, result>>

\* The run of standalone parentheticals that starts at tokens[n].
RECURSIVE GroupFrom(_, _)
GroupFrom(toks, n) ==
    IF n <= Len(toks) /\ is_parenthetical(toks[n])
    THEN <<toks[n]>> \o GroupFrom(toks, n + 1)
    ELSE <<>>

\* Lines 185-191: a run of standalone parentheticals becomes one segment.
ScanStandalone ==
    /\ pc = "scan"
    /\ i <= Len(tokens)
    /\ ~is_attached_parenthetical(tokens[i])
    /\ is_parenthetical(tokens[i])
    /\ group' = GroupFrom(tokens, i)
    /\ i' = i + Len(group')
    /\ segments' = Append(segments, process_standalone_group(group'))
    /\ UNCHANGED <<bracketVars, sortVars, extractVars>>
    /\ UNCHANGED <<phrase, pc, tokens, calls, intermediate_phrases, k, words,
                   current_alternatives, final_combinations, result>>

\* Lines 192-194: a regular word.
ScanWord ==
    /\ pc = "scan"
    /\ i <= Len(tokens)
    /\ ~is_attached_parenthetical(tokens[i])
    /\ ~is_parenthetical(tokens[i])
    /\ segments' = Append(segments, <<tokens[i]>>)
    /\ i' = i + 1
    /\ UNCHANGED <<bracketVars, sortVars, extractVars>>
    /\ UNCHANGED <<phrase, pc, tokens, group, calls, intermediate_phrases, k, words,
                   current_alternatives, final_combinations, result>>

(***************************************************************************)
(* process_attached_parenthetical, one frame per call.  A frame is "enter"  *)
(* when called, "keep" while the call of line 149 runs, "drop" at line 151, *)
(* "dropped" while the call of line 153 runs and "return" at line 157.      *)
(***************************************************************************)

\* A call returns ret: into the caller's results.extend(...), or, from the
\* outermost call, into segments.append(...) of line 183, which ends the
\* iteration of the token scan.
Return(ret) ==
    LET rest == SubSeq(calls, 1, Len(calls) - 1) IN
    IF rest = <<>>
    THEN /\ calls' = <<>>
         /\ segments' = Append(segments, ret)
         /\ i' = i + 1
         /\ pc' = "scan"
    ELSE LET caller == rest[Len(rest)] IN
         /\ calls' = [rest EXCEPT ![Len(rest)] =
                         [caller EXCEPT !.results = caller.results \o ret,
                                        !.at = IF caller.at = "keep" THEN "drop"
                                               ELSE "return"]]
         /\ UNCHANGED <<segments, i, pc>>

\* Lines 143-145: no group, the token is its only candidate.
AttachedBase ==
    /\ pc = "call"
    /\ calls[Len(calls)].at = "enter"
    /\ ~GroupMatch(calls[Len(calls)].token).matched
    /\ Return(<<calls[Len(calls)].token>>)
    /\ UNCHANGED <<bracketVars, sortVars, extractVars>>
    /\ UNCHANGED <<phrase, tokens, group, intermediate_phrases, k, words,
                   current_alternatives, final_combinations, result>>

\* Lines 147-149: the call that keeps the content of the group.
AttachedKeep ==
    /\ pc = "call"
    /\ calls[Len(calls)].at = "enter"
    /\ LET top == calls[Len(calls)]
           match == GroupMatch(top.token)
       IN /\ match.matched
          /\ calls' = Append([calls EXCEPT ![Len(calls)].at = "keep"],
                             [token |-> match.prefix \o match.content \o match.suffix,
                              results |-> <<>>, at |-> "enter"])
    /\ UNCHANGED <<bracketVars, sortVars, extractVars>>
    /\ UNCHANGED <<phrase, pc, tokens, i, group, segments, intermediate_phrases, k,
                   words, current_alternatives, final_combinations, result>>

\* Lines 151-155: the call that drops the group, or the token without it.
AttachedDrop ==
    /\ pc = "call"
    /\ calls[Len(calls)].at = "drop"
    /\ LET top == calls[Len(calls)]
           match == GroupMatch(top.token)
           next_token == match.prefix \o match.suffix
       IN IF next_token # <<>> /\ next_token # top.token
          THEN calls' = Append([calls EXCEPT ![Len(calls)].at = "dropped"],
                               [token |-> next_token, results |-> <<>>, at |-> "enter"])
          ELSE IF next_token # <<>>
          THEN calls' = [calls EXCEPT ![Len(calls)].at = "return",
                                      ![Len(calls)].results = Append(top.results, next_token)]
          ELSE calls' = [calls EXCEPT ![Len(calls)].at = "return"]
    /\ UNCHANGED <<bracketVars, sortVars, extractVars>>
    /\ UNCHANGED <<phrase, pc, tokens, i, group, segments, intermediate_phrases, k,
                   words, current_alternatives, final_combinations, result>>

\* Line 157: the candidates without duplicates.
AttachedReturn ==
    /\ pc = "call"
    /\ calls[Len(calls)].at = "return"
    /\ Return(Dedup(calls[Len(calls)].results))
    /\ UNCHANGED <<bracketVars, sortVars, extractVars>>
    /\ UNCHANGED <<phrase, tokens, group, intermediate_phrases, k, words,
                   current_alternatives, final_combinations, result>>

\* Line 198: " ".join(combo).strip() for each combination.
JoinedCombos(combos) == [n \in 1..Len(combos) |-> Strip(Join(combos[n], <<" ">>))]

\* Lines 200-202: normalize_space(p) for each p that is not blank.
NormalizedKept(joined) ==
    Only({[n \in 1..Len(kept) |-> normalize_space(kept[n])] :
             kept \in {SelectSeq(joined, LAMBDA p : Strip(p) # <<>>)}})

\* IntermediatePhrases without the filter "if p.strip()".
IntermediatePhrases_unfiltered(segs) ==
    Only({[n \in 1..Len(joined) |-> normalize_space(joined[n])] :
             joined \in {Only({JoinedCombos(combos) : combos \in {Product(segs)}})}})

\* Lines 197-202: the phrases of the cross product that are not blank.
IntermediatePhrases(segs) ==
    Only({NormalizedKept(joined) :
             joined \in {Only({JoinedCombos(combos) : combos \in {Product(segs)}})}})

\* Lines 196-205: the end of the token scan.
CrossProduct ==
    /\ pc = "scan"
    /\ i > Len(tokens)
    /\ intermediate_phrases' = IntermediatePhrases(segments)
    /\ final_combinations' = {}
    /\ k' = 1
    /\ pc' = "phrases"
    /\ UNCHANGED <<bracketVars, sortVars, extractVars>>
    /\ UNCHANGED <<phrase, tokens, i, group, segments, calls, words,
                   current_alternatives, result>>

\* Lines 206-210: the next intermediate phrase is split into words.
SlashBegin ==
    /\ pc = "phrases"
    /\ k <= Len(intermediate_phrases)
    /\ words' = ReSplit(Strip(intermediate_phrases[k]))
    /\ segments' = <<>>
    /\ current_alternatives' = <<>>
    /\ i' = 1
    /\ pc' = "slash"
    /\ UNCHANGED <<bracketVars, sortVars, extractVars>>
    /\ UNCHANGED <<phrase, tokens, group, calls, intermediate_phrases, k,
                   final_combinations, result>>

\* SlashStep whose first "continue" (line 215) comes without "i += 1".
SlashStep_stuck ==
    /\ pc = "slash"
    /\ i <= Len(words)
    /\ IF i + 1 <= Len(words) /\ words[i] = <<"/">>
       THEN /\ i' = i
            /\ UNCHANGED <<segments, current_alternatives>>
       ELSE IF i > 1 /\ words[i - 1] = <<"/">>
       THEN /\ current_alternatives' = Append(current_alternatives, words[i])
            /\ i' = i + 1
            /\ UNCHANGED segments
       ELSE LET flushed == IF current_alternatives # <<>>
                           THEN Append(segments, current_alternatives)
                           ELSE segments
            IN IF i + 1 <= Len(words) /\ words[i + 1] = <<"/">>
               THEN /\ segments' = flushed
                    /\ current_alternatives' = <<words[i]>>
                    /\ i' = i + 2
               ELSE /\ segments' = Append(flushed, <<words[i]>>)
                    /\ current_alternatives' = <<>>
                    /\ i' = i + 1
    /\ UNCHANGED <<bracketVars, sortVars, extractVars>>
    /\ UNCHANGED <<phrase, pc, tokens, group, calls, intermediate_phrases, k, words,
                   final_combinations, result>>

\* Lines 212-228: one iteration of the slash scan.
SlashStep ==
    /\ pc = "slash"
    /\ i <= Len(words)
    /\ IF i + 1 <= Len(words) /\ words[i] = <<"/">>
       THEN /\ i' = i + 1
            /\ UNCHANGED <<segments, current_alternatives>>
       ELSE IF i > 1 /\ words[i - 1] = <<"/">>
       THEN /\ current_alternatives' = Append(current_alternatives, words[i])
            /\ i' = i + 1
            /\ UNCHANGED segments
       ELSE LET flushed == IF current_alternatives # <<>>
                           THEN Append(segments, current_alternatives)
                           ELSE segments
            IN IF i + 1 <= Len(words) /\ words[i + 1] = <<"/">>
               THEN /\ segments' = flushed
                    /\ current_alternatives' = <<words[i]>>
                    /\ i' = i + 2
               ELSE /\ segments' = Append(flushed, <<words[i]>>)
                    /\ current_alternatives' = <<>>
                    /\ i' = i + 1
    /\ UNCHANGED <<bracketVars, sortVars, extractVars>>
    /\ UNCHANGED <<phrase, pc, tokens, group, calls, intermediate_phrases, k, words,
                   final_combinations, result>>

\* Lines 234-235: the phrases of the cross product of the slash segments.
FinalPhrases(segs) ==
    {normalize_space(Join(combo, <<" ">>)) : combo \in Range(Product(segs))}

\* Lines 230-235: the end of the slash scan of one intermediate phrase.
SlashEnd ==
    /\ pc = "slash"
    /\ i > Len(words)
    /\ segments' = IF current_alternatives # <<>>
                   THEN Append(segments, current_alternatives)
                   ELSE segments
    /\ final_combinations' = final_combinations \cup FinalPhrases(segments')
    /\ k' = k + 1
    /\ pc' = "phrases"
    /\ UNCHANGED <<bracketVars, sortVars, extractVars>>
    /\ UNCHANGED <<phrase, tokens, i, group, calls, intermediate_phrases, words,
                   current_alternatives, result>>

\* Lines 237-239: the sorted list is returned.
Finalize ==
    /\ pc = "phrases"
    /\ k > Len(intermediate_phrases)
    /\ \E order \in IterationOrders(final_combinations) :
           result' = SortedPhrases(order)
    /\ pc' = "done"
    /\ UNCHANGED <<bracketVars, sortVars, extractVars>>
    /\ UNCHANGED <<phrase, tokens, i, group, segments, calls, intermediate_phrases, k,
                   words, current_alternatives, final_combinations>>

GcNext ==
    \/ Enter
    \/ ScanAttached
    \/ ScanStandalone
    \/ ScanWord
    \/ AttachedBase
    \/ AttachedKeep
    \/ AttachedDrop
    \/ AttachedReturn
    \/ CrossProduct
    \/ SlashBegin
    \/ SlashStep
    \/ SlashEnd
    \/ Finalize

vars == <<gcVars, bracketVars, sortVars, extractVars>>

Init == GcInit

Next == GcNext

Spec == Init /\ [][Next]_vars

(***************************************************************************)
(* remove_unmatched_brackets                                               *)
(***************************************************************************)

\* Longest string whose brackets are matched.
MaxBracketLen == 5

BracketChars == {"(", ")", "[", "]", "{", "}", "a"}

BracketPhrases == UNION {[1..n -> BracketChars] : n \in 0..MaxBracketLen}

\* Line 58.
pairs(c) ==
    CASE c = "]" -> "["
      [] c = ")" -> "("
      [] c = "}" -> "{"

\* Lines 59-60.
opening == {"[", "(", "{"}

closing == {"]", ")", "}"}

\* Lines 62-63.
BracketsInit ==
    /\ phrase \in BracketPhrases
    /\ pc = "brackets"
    /\ i = 1
    /\ stack = <<>>
    /\ unmatched = {}
    /\ result = <<>>
    /\ tokens = <<>>
    /\ group = <<>>
    /\ segments = <<>>
    /\ calls = <<>>
    /\ intermediate_phrases = <<>>
    /\ k = 1
    /\ words = <<>>
    /\ current_alternatives = <<>>
    /\ final_combinations = {}
    /\ SortIdle
    /\ ExtractIdle

\* The test of line 70 without the comparison of the bracket types.
MatchesTop_anyType(char) == stack # <<>>

\* Line 70: the closer pairs with the opener on top of the stack.
MatchesTop(char) == stack # <<>> /\ pairs(char) = stack[Len(stack)][1]

\* Lines 67-68.
PushOpening ==
    /\ pc = "brackets"
    /\ i <= Len(phrase)
    /\ phrase[i] \in opening
    /\ stack' = Append(stack, <<phrase[i], i>>)
    /\ i' = i + 1
    /\ UNCHANGED <<phrase, pc, unmatched, result>>
    /\ UNCHANGED <<tokens, group, segments, calls, intermediate_phrases, k, words,
                   current_alternatives, final_combinations, sortVars,
                   extractVars>>

\* Lines 69-71.
PopMatched ==
    /\ pc = "brackets"
    /\ i <= Len(phrase)
    /\ phrase[i] \in closing
    /\ MatchesTop(phrase[i])
    /\ stack' = SubSeq(stack, 1, Len(stack) - 1)
    /\ i' = i + 1
    /\ UNCHANGED <<phrase, pc, unmatched, result>>
    /\ UNCHANGED <<tokens, group, segments, calls, intermediate_phrases, k, words,
                   current_alternatives, final_combinations, sortVars,
                   extractVars>>

\* Lines 69-73.
UnmatchedClosing ==
    /\ pc = "brackets"
    /\ i <= Len(phrase)
    /\ phrase[i] \in closing
    /\ ~MatchesTop(phrase[i])
    /\ unmatched' = unmatched \cup {i}
    /\ i' = i + 1
    /\ UNCHANGED <<phrase, pc, stack, result>>
    /\ UNCHANGED <<tokens, group, segments, calls, intermediate_phrases, k, words,
                   current_alternatives, final_combinations, sortVars,
                   extractVars>>

\* Lines 66-69: any other character.
OtherChar ==
    /\ pc = "brackets"
    /\ i <= Len(phrase)
    /\ phrase[i] \notin opening \cup closing
    /\ i' = i + 1
    /\ UNCHANGED <<phrase, pc, stack, unmatched, result>>
    /\ UNCHANGED <<tokens, group, segments, calls, intermediate_phrases, k, words,
                   current_alternatives, final_combinations, sortVars,
                   extractVars>>

\* The characters of s at the positions of keep, in order.
RECURSIVE KeepFrom(_, _, _)
KeepFrom(s, n, keep) ==
    IF n > Len(s) THEN <<>>
    ELSE (IF n \in keep THEN <<s[n]>> ELSE <<>>) \o KeepFrom(s, n + 1, keep)

\* Lines 75-79.
Reconstruct ==
    /\ pc = "brackets"
    /\ i > Len(phrase)
    /\ unmatched' = unmatched \cup {stack[n][2] : n \in 1..Len(stack)}
    /\ result' = KeepFrom(phrase, 1, (1..Len(phrase)) \ unmatched')
    /\ pc' = "rebuilt"
    /\ UNCHANGED <<phrase, i, stack>>
    /\ UNCHANGED <<tokens, group, segments, calls, intermediate_phrases, k, words,
                   current_alternatives, final_combinations, sortVars,
                   extractVars>>

BracketsNext ==
    \/ PushOpening
    \/ PopMatched
    \/ UnmatchedClosing
    \/ OtherChar
    \/ Reconstruct

SpecBrackets == BracketsInit /\ [][BracketsNext]_vars

(***************************************************************************)
(* sort.py                                                                 *)
(***************************************************************************)

\* Most lines of a file.
MaxLines == 3

\* Lines as readlines() returns them: valid ones that share a sort key, one
\* that differs in whitespace only, one without a line end, and invalid ones.
FileLines ==
    { <<"a", "\t", "b", "c", "\n">>,
      <<"a", "\t", "c", "b", "\n">>,
      <<"a", "\t", "b", " ", "c", "\n">>,
      <<"b", "\t", "a", "\n">>,
      <<" ", "a", "\t", "b", "c">>,
      <<"a", "\n">>,
      <<"a", "\t", "b", "\t", "c", "\n">>,
      <<"\n">> }

Files == UNION {[1..n -> FileLines] : n \in 0..MaxLines}

\* str.split(sep): the pieces between the separators, empty ones kept.
RECURSIVE SplitOn(_, _)
SplitOn(s, sep) ==
    IF \A n \in 1..Len(s) : s[n] # sep THEN <<s>>
    ELSE LET n == CHOOSE m \in 1..Len(s) :
                      s[m] = sep /\ \A l \in 1..(m - 1) : s[l] # sep
         IN <<SubSeq(s, 1, n - 1)>> \o SplitOn(SubSeq(s, n + 1, Len(s)), sep)

\* Lines 20-24.
key_func(line) ==
    LET parts == SplitOn(Strip(line), "\t")
        original == parts[1]
        translation == parts[2]
    IN <<original, Len(Split(translation)), Len(translation)>>

\* The order of Python's tuples of a str and two ints.
KeyLess(a, b) ==
    \/ StrLess(a[1], b[1])
    \/ /\ a[1] = b[1]
       /\ \/ a[2] < b[2]
          \/ a[2] = b[2] /\ a[3] < b[3]

\* Line 27: sorted(valid_lines, key=key_func), stable.
SortedLines(xs) ==
    LET key == [n \in 1..Len(xs) |-> key_func(xs[n])]
        rank(n) == 1 + Cardinality({m \in 1..Len(xs) :
                                       \/ KeyLess(key[m], key[n])
                                       \/ (~KeyLess(key[n], key[m]) /\ m < n)})
    IN [p \in 1..Len(xs) |-> xs[CHOOSE n \in 1..Len(xs) : rank(n) = p]]

\* Lines 6-10.
SortInit ==
    /\ lines \in Files
    /\ pc = "filter"
    /\ i = 1
    /\ valid_lines = <<>>
    /\ sorted_lines = <<>>
    /\ prev_line = None
    /\ stdout = <<>>
    /\ stderr = <<>>
    /\ phrase = <<>>
    /\ result = <<>>
    /\ tokens = <<>>
    /\ group = <<>>
    /\ segments = <<>>
    /\ calls = <<>>
    /\ intermediate_phrases = <<>>
    /\ k = 1
    /\ words = <<>>
    /\ current_alternatives = <<>>
    /\ final_combinations = {}
    /\ BracketsIdle
    /\ ExtractIdle

\* Lines 11-15.
KeepValid ==
    /\ pc = "filter"
    /\ i <= Len(lines)
    /\ Len(SplitOn(Strip(lines[i]), "\t")) = 2
    /\ valid_lines' = Append(valid_lines, Strip(lines[i]))
    /\ i' = i + 1
    /\ UNCHANGED <<pc, lines, sorted_lines, prev_line, stdout, stderr>>
    /\ UNCHANGED <<phrase, result, tokens, group, segments, calls,
                   intermediate_phrases, k, words, current_alternatives,
                   final_combinations, bracketVars, extractVars>>

\* Lines 11-17.
ReportInvalid ==
    /\ pc = "filter"
    /\ i <= Len(lines)
    /\ Len(SplitOn(Strip(lines[i]), "\t")) # 2
    /\ stderr' = Append(stderr, Strip(lines[i]))
    /\ i' = i + 1
    /\ UNCHANGED <<pc, lines, valid_lines, sorted_lines, prev_line, stdout>>
    /\ UNCHANGED <<phrase, result, tokens, group, segments, calls,
                   intermediate_phrases, k, words, current_alternatives,
                   final_combinations, bracketVars, extractVars>>

\* Lines 27-30.
SortLines ==
    /\ pc = "filter"
    /\ i > Len(lines)
    /\ sorted_lines' = SortedLines(valid_lines)
    /\ prev_line' = None
    /\ i' = 1
    /\ pc' = "print"
    /\ UNCHANGED <<lines, valid_lines, stdout, stderr>>
    /\ UNCHANGED <<phrase, result, tokens, group, segments, calls,
                   intermediate_phrases, k, words, current_alternatives,
                   final_combinations, bracketVars, extractVars>>

\* Lines 31-34.
PrintLine ==
    /\ pc = "print"
    /\ i <= Len(sorted_lines)
    /\ sorted_lines[i] # prev_line
    /\ stdout' = Append(stdout, sorted_lines[i])
    /\ prev_line' = sorted_lines[i]
    /\ i' = i + 1
    /\ UNCHANGED <<pc, lines, valid_lines, sorted_lines, stderr>>
    /\ UNCHANGED <<phrase, result, tokens, group, segments, calls,
                   intermediate_phrases, k, words, current_alternatives,
                   final_combinations, bracketVars, extractVars>>

\* Lines 31-32: a line equal to the one printed last.
SkipLine ==
    /\ pc = "print"
    /\ i <= Len(sorted_lines)
    /\ sorted_lines[i] = prev_line
    /\ i' = i + 1
    /\ UNCHANGED <<pc, lines, valid_lines, sorted_lines, prev_line, stdout, stderr>>
    /\ UNCHANGED <<phrase, result, tokens, group, segments, calls,
                   intermediate_phrases, k, words, current_alternatives,
                   final_combinations, bracketVars, extractVars>>

SortNext ==
    \/ KeepValid
    \/ ReportInvalid
    \/ SortLines
    \/ PrintLine
    \/ SkipLine

SpecSort == SortInit /\ [][SortNext]_vars

(***************************************************************************)
(* convert_enwiktionary.py: wiki_to_text, extract_words, process_file      *)
(***************************************************************************)

\* str.startswith(prefix).
StartsWith(s, prefix) ==
    Len(s) >= Len(prefix) /\ SubSeq(s, 1, Len(prefix)) = prefix

\* str.lstrip(chars): from the first character that is not one of chars.
LStripChars(s, chars) ==
    LET solid == {n \in 1..Len(s) : s[n] \notin chars}
    IN IF solid = {} THEN <<>>
       ELSE SubSeq(s, CHOOSE n \in solid : \A m \in solid : n <= m, Len(s))

\* The first position from n on where p occurs in s, 0 when there is none.
FindFrom(s, p, n) ==
    LET found == {m \in n..(Len(s) - Len(p) + 1) : SubSeq(s, m, m + Len(p) - 1) = p}
    IN IF found = {} THEN 0 ELSE CHOOSE m \in found : \A l \in found : m <= l

\* str.split(sep, 1) of a string that holds sep.
SplitOnce(s, sep) ==
    LET n == FindFrom(s, <<sep>>, 1)
    IN <<SubSeq(s, 1, n - 1), SubSeq(s, n + 1, Len(s))>>

\* s[a:b + 1] of Python: the slice ends where the string ends.
Slice(s, a, b) == SubSeq(s, a, IF b > Len(s) THEN Len(s) ELSE b)

\* Lines 24-29: the text after the last "|" of a link, or the whole of it.
replace_link(inner) ==
    LET parts == SplitOn(inner, "|")
    IN parts[Len(parts)]

\* Line 33: where the link [[...]] that starts at s[n] ends (the position of
\* its "]]"), 0 when no link starts there.
LinkEnd(s, n) ==
    IF Slice(s, n, n + 1) # <<"[", "[">> THEN 0
    ELSE LET stops == {m \in (n + 2)..Len(s) : s[m] \in {"[", "]"}}
         IN IF stops = {} THEN 0
            ELSE LET q == CHOOSE m \in stops : \A l \in stops : m <= l
                 IN IF Slice(s, q, q + 1) = <<"]", "]">> THEN q ELSE 0

RECURSIVE WikiToTextFrom(_, _)
WikiToTextFrom(s, n) ==
    IF n > Len(s) THEN <<>>
    ELSE IF LinkEnd(s, n) > 0
         THEN replace_link(SubSeq(s, n + 2, LinkEnd(s, n) - 1))
                  \o WikiToTextFrom(s, LinkEnd(s, n) + 2)
         ELSE <<s[n]>> \o WikiToTextFrom(s, n + 1)

\* Lines 21-34.
wiki_to_text(wiki_text) == WikiToTextFrom(wiki_text, 1)

\* Line 41: the length of the opening {{t|, {{t+| or {{t-| at s[n], else 0.
TemplateOpen(s, n) ==
    IF Slice(s, n, n + 3) = <<"{", "{", "t", "|">> THEN 4
    ELSE IF /\ Slice(s, n, n + 2) = <<"{", "{", "t">>
            /\ n + 4 <= Len(s)
            /\ s[n + 3] \in {"+", "-"}
            /\ s[n + 4] = "|"
         THEN 5
         ELSE 0

\* Line 42: re.findall, the parameters of each template from s[n] on.
RECURSIVE TemplatesFrom(_, _)
TemplatesFrom(s, n) ==
    IF n > Len(s) THEN <<>>
    ELSE LET open == TemplateOpen(s, n)
             close == IF open = 0 THEN 0 ELSE FindFrom(s, <<"}", "}">>, n + open)
         IN IF close = 0 THEN TemplatesFrom(s, n + 1)
            ELSE <<SubSeq(s, n + open, close - 1)>> \o TemplatesFrom(s, close + 2)

\* Lines 44-51: the second parameter of a template, when it is not blank.
TemplateWord(match) ==
    LET params == SplitOn(wiki_to_text(match), "|")
    IN IF Len(params) >= 2 /\ Strip(params[2]) # <<>>
       THEN <<Strip(params[2])>>
       ELSE <<>>

RECURSIVE WordsOf(_)
WordsOf(matches) ==
    IF matches = <<>> THEN <<>>
    ELSE TemplateWord(Head(matches)) \o WordsOf(Tail(matches))

\* Lines 37-53.
extract_words(translation_part) == WordsOf(TemplatesFrom(translation_part, 1))

\* Most lines of a file that is enumerated exhaustively.
MaxFileLines == 4

\* Opens a block: {{trans-top|x}}\n
TopLine ==
    <<"{", "{", "t", "r", "a", "n", "s", "-", "t", "o", "p", "|", "x", "}", "}", "\n">>

\* Closes a block: {{trans-bottom}}\n
BottomLine ==
    <<"{", "{", "t", "r", "a", "n", "s", "-", "b", "o", "t", "t", "o", "m", "}", "}", "\n">>

\* Lang1: the word a: * F: {{t|f|a}}\n
LineFa ==
    <<"*", " ", "F", ":", " ", "{", "{", "t", "|", "f", "|", "a", "}", "}", "\n">>

\* Lang2: the word b: * G: {{t+|g|b}}\n
LineGb ==
    <<"*", " ", "G", ":", " ", "{", "{", "t", "+", "|", "g", "|", "b", "}", "}", "\n">>

\* Lang1, nested list item: the word c of a link: *: F: {{t|f|[[x|c]]}}\n
LineFc ==
    <<"*", ":", " ", "F", ":", " ", "{", "{", "t", "|", "f", "|", "[", "[", "x", "|", "c", "]", "]", "}", "}", "\n">>

\* Lang2: the words d and b: * G: {{t|g|d}}, {{t-|g|b}}\n
LineGdb ==
    <<"*", " ", "G", ":", " ", "{", "{", "t", "|", "g", "|", "d", "}", "}", ", ", " ", "{", "{", "t", "-", "|", "g", "|", "b", "}", "}", "\n">>

\* No "|": not an opening line: {{trans-top}}\n
BareTopLine ==
    <<"{", "{", "t", "r", "a", "n", "s", "-", "t", "o", "p", "}", "}", "\n">>

WikiLines == {TopLine, BottomLine, LineFa, LineGb, LineFc, LineGdb, BareTopLine}

\* Longer files: words before a block, a restarted block, two blocks, a
\* second closing line, a line that looks like an opening line.
LongFiles ==
    { <<LineFa, TopLine, LineFc, LineGb, BottomLine>>,
      <<TopLine, LineFa, TopLine, LineGb, BottomLine>>,
      <<TopLine, LineFa, TopLine, LineFc, LineGb, BottomLine>>,
      <<TopLine, LineFa, LineGb, BottomLine, LineGdb, TopLine, LineFc, LineGdb, BottomLine>>,
      <<TopLine, LineFa, LineGb, BottomLine, BottomLine>>,
      <<TopLine, LineFa, LineGb, BareTopLine, BottomLine>>,
      <<TopLine, LineFa, LineFc, LineGdb, BottomLine, LineFa>> }

WikiFiles == UNION {[1..n -> WikiLines] : n \in 0..MaxFileLines} \cup LongFiles

\* Lines 253-259.
ExtractInit ==
    /\ lines \in WikiFiles
    /\ lang1 = <<"F">>
    /\ lang2 \in {<<"G">>, <<"F">>}
    /\ pc = "read"
    /\ line_count = 0
    /\ in_block = FALSE
    /\ lang1_words = {}
    /\ lang2_words = {}
    /\ word_pairs = <<>>
    /\ valid_lines = <<>>
    /\ sorted_lines = <<>>
    /\ prev_line = None
    /\ stdout = <<>>
    /\ stderr = <<>>
    /\ phrase = <<>>
    /\ result = <<>>
    /\ tokens = <<>>
    /\ i = 1
    /\ group = <<>>
    /\ segments = <<>>
    /\ calls = <<>>
    /\ intermediate_phrases = <<>>
    /\ k = 1
    /\ words = <<>>
    /\ current_alternatives = <<>>
    /\ final_combinations = {}
    /\ BracketsIdle

TransTop == <<"{", "{", "t", "r", "a", "n", "s", "-", "t", "o", "p", "|">>

TransBottom ==
    <<"{", "{", "t", "r", "a", "n", "s", "-", "b", "o", "t", "t", "o", "m", "}", "}">>

\* Line 268: the line being read, stripped.
NextLine == Strip(lines[line_count + 1])

\* Lines 290-293: the language of a line of a block, <<>> without a ":".
LineLanguage(line) ==
    LET cleaned_line == LStripChars(line, {"*", " ", ":"})
    IN IF Contains(cleaned_line, ":")
       THEN Strip(SplitOnce(cleaned_line, ":")[1])
       ELSE <<>>

\* Lines 290-295: the words of the translation part of a line of a block.
LineWords(line) ==
    LET cleaned_line == LStripChars(line, {"*", " ", ":"})
    IN IF Contains(cleaned_line, ":")
       THEN Range(extract_words(SplitOnce(cleaned_line, ":")[2]))
       ELSE {}

\* Lines 278-280: each word of o1 with each word of o2, o1 outermost.
PairsOf(o1, o2) ==
    [n \in 1..(Len(o1) * Len(o2)) |->
        <<o1[((n - 1) \div Len(o2)) + 1], o2[((n - 1) % Len(o2)) + 1]>>]

\* BlockTop that keeps the words collected so far.
BlockTop_noreset ==
    /\ in_block' = TRUE
    /\ UNCHANGED <<lang1_words, lang2_words>>

\* Lines 270-272.
BlockTop ==
    /\ in_block' = TRUE
    /\ lang1_words' = {}
    /\ lang2_words' = {}

\* Lines 262-274: a line that opens a block.
ReadTop ==
    /\ pc = "read"
    /\ line_count < Len(lines)
    /\ StartsWith(NextLine, TransTop)
    /\ line_count' = line_count + 1
    /\ BlockTop
    /\ UNCHANGED <<pc, lines, lang1, lang2, word_pairs>>
    /\ UNCHANGED <<valid_lines, sorted_lines, prev_line, stdout, stderr, bracketVars>>
    /\ UNCHANGED <<phrase, tokens, i, group, segments, calls, intermediate_phrases, k,
                   words, current_alternatives, final_combinations, result>>

\* Lines 275-288: a line that closes a block.
ReadBottom ==
    /\ pc = "read"
    /\ line_count < Len(lines)
    /\ ~StartsWith(NextLine, TransTop)
    /\ StartsWith(NextLine, TransBottom)
    /\ line_count' = line_count + 1
    /\ IF in_block /\ lang1_words # {} /\ lang2_words # {}
       THEN \E o1 \in IterationOrders(lang1_words), o2 \in IterationOrders(lang2_words) :
                word_pairs' = word_pairs \o PairsOf(o1, o2)
       ELSE UNCHANGED word_pairs
    /\ in_block' = FALSE
    /\ lang1_words' = {}
    /\ lang2_words' = {}
    /\ UNCHANGED <<pc, lines, lang1, lang2>>
    /\ UNCHANGED <<valid_lines, sorted_lines, prev_line, stdout, stderr, bracketVars>>
    /\ UNCHANGED <<phrase, tokens, i, group, segments, calls, intermediate_phrases, k,
                   words, current_alternatives, final_combinations, result>>

\* Lines 289-299: any other line while a block is open.
ReadBlockLine ==
    /\ pc = "read"
    /\ line_count < Len(lines)
    /\ ~StartsWith(NextLine, TransTop)
    /\ ~StartsWith(NextLine, TransBottom)
    /\ in_block
    /\ line_count' = line_count + 1
    /\ IF Contains(LStripChars(NextLine, {"*", " ", ":"}), ":")
       THEN IF LineLanguage(NextLine) = lang1
            THEN /\ lang1_words' = lang1_words \cup LineWords(NextLine)
                 /\ UNCHANGED lang2_words
            ELSE IF LineLanguage(NextLine) = lang2
                 THEN /\ lang2_words' = lang2_words \cup LineWords(NextLine)
                      /\ UNCHANGED lang1_words
                 ELSE UNCHANGED <<lang1_words, lang2_words>>
       ELSE UNCHANGED <<lang1_words, lang2_words>>
    /\ UNCHANGED <<pc, lines, lang1, lang2, in_block, word_pairs>>
    /\ UNCHANGED <<valid_lines, sorted_lines, prev_line, stdout, stderr, bracketVars>>
    /\ UNCHANGED <<phrase, tokens, i, group, segments, calls, intermediate_phrases, k,
                   words, current_alternatives, final_combinations, result>>

\* Lines 262-289: any other line while no block is open.
ReadOutsideLine ==
    /\ pc = "read"
    /\ line_count < Len(lines)
    /\ ~StartsWith(NextLine, TransTop)
    /\ ~StartsWith(NextLine, TransBottom)
    /\ ~in_block
    /\ line_count' = line_count + 1
    /\ UNCHANGED <<pc, lines, lang1, lang2, in_block, lang1_words, lang2_words,
                   word_pairs>>
    /\ UNCHANGED <<valid_lines, sorted_lines, prev_line, stdout, stderr, bracketVars>>
    /\ UNCHANGED <<phrase, tokens, i, group, segments, calls, intermediate_phrases, k,
                   words, current_alternatives, final_combinations, result>>

\* Lines 262 and 300: the file has been read.
EndOfFile ==
    /\ pc = "read"
    /\ line_count = Len(lines)
    /\ pc' = "extracted"
    /\ UNCHANGED <<lines, extractVars>>
    /\ UNCHANGED <<valid_lines, sorted_lines, prev_line, stdout, stderr, bracketVars>>
    /\ UNCHANGED <<phrase, tokens, i, group, segments, calls, intermediate_phrases, k,
                   words, current_alternatives, final_combinations, result>>

ExtractNext ==
    \/ ReadTop
    \/ ReadBottom
    \/ ReadBlockLine
    \/ ReadOutsideLine
    \/ EndOfFile

SpecExtract == ExtractInit /\ [][ExtractNext]_vars

(***************************************************************************)
(* Definitions the properties are stated with                              *)
(***************************************************************************)


\* The number of "(" minus the number of ")" among the first n characters.
RECURSIVE Depth(_, _)
Depth(s, n) ==
    IF n = 0 THEN 0
    ELSE Depth(s, n - 1) + (IF s[n] = "(" THEN 1 ELSE IF s[n] = ")" THEN -1 ELSE 0)

\* Every parenthesis has its partner and no group holds another one.
BalancedFlat(s) ==
    /\ \A n \in 1..Len(s) : Depth(s, n) \in {0, 1}
    /\ Depth(s, Len(s)) = 0

\* A line break stands inside a parenthetical group.
LineBreakInGroup(s) == \E n \in 1..Len(s) : s[n] = "\n" /\ Depth(s, n) > 0

\* Every "/" of the intermediate phrases is a word of its own that another
\* word follows.
SlashesSeparate ==
    \A n \in 1..Len(intermediate_phrases) :
        LET ws == Split(intermediate_phrases[n])
        IN \A m \in 1..Len(ws) : Contains(ws[m], "/") => ws[m] = <<"/">> /\ m < Len(ws)

NoParens(s) == ~Contains(s, "(") /\ ~Contains(s, ")")

C2_SortedDistinct ==
    pc = "done" =>
        /\ \A n \in 1..(Len(result) - 1) : StrLess(result[n], result[n + 1])
        /\ \A n, m \in 1..Len(result) : n # m => result[n] # result[m]
        /\ \A order \in IterationOrders(final_combinations) :
               SortedPhrases(order) = result

\* Three phrases or more were returned, and the set was not read in their order.
C2_Witness ==
    /\ pc = "done"
    /\ Len(result) >= 3
    /\ \E order \in IterationOrders(final_combinations) : order # result

Blank(s) == Strip(s) = <<>>

\* No whitespace at either end and no two whitespace characters in a row.
Trimmed(s) ==
    /\ s # <<>>
    /\ ~IsSpace(s[1])
    /\ ~IsSpace(s[Len(s)])
    /\ \A n \in 1..(Len(s) - 1) : ~(IsSpace(s[n]) /\ IsSpace(s[n + 1]))

Contents(run) == [n \in 1..Len(run) |-> SubSeq(run[n], 2, Len(run[n]) - 1)]

\* The n+1 suffixes c_m .. c_n of the contents, each joined by single spaces.
JoinedSuffixes(cs) ==
    [m \in 1..(Len(cs) + 1) |-> Join(SubSeq(cs, m, Len(cs)), <<" ">>)]

\* The step of the token scan that handles the run starting at tokens[i] ...
StandaloneStep ==
    /\ pc = "scan"
    /\ i <= Len(tokens)
    /\ is_parenthetical(tokens[i])

\* ... takes the whole maximal run.
TakesMaximalRun ==
    /\ i' > i
    /\ i' <= Len(tokens) + 1
    /\ \A n \in i..(i' - 1) : is_parenthetical(tokens[n])
    /\ i' <= Len(tokens) => ~is_parenthetical(tokens[i'])
    /\ i > 1 => ~is_parenthetical(tokens[i - 1])

\* C4 as stated: the segment of a maximal run of n standalone parentheticals is
\* exactly the n+1 space-joined suffixes of their contents.
C4_JoinedSuffixes ==
    [][StandaloneStep =>
           /\ TakesMaximalRun
           /\ segments' = Append(segments,
                                 JoinedSuffixes(Contents(SubSeq(tokens, i, i' - 1))))]_vars

\* C4 as amended: the segment of a maximal run of n standalone parentheticals
\* is exactly the n+1 suffixes of their contents, each space-joined and then
\* stripped of leading and trailing whitespace, the last being the empty
\* string; no other selection of the contents is a candidate.
C4_StrippedSuffixes ==
    [][StandaloneStep =>
           /\ TakesMaximalRun
           /\ LET joined == JoinedSuffixes(Contents(SubSeq(tokens, i, i' - 1)))
              IN /\ segments' = Append(segments,
                                       [m \in 1..Len(joined) |-> Strip(joined[m])])
                 /\ Len(segments'[Len(segments')]) = i' - i + 1
                 /\ segments'[Len(segments')][i' - i + 1] = <<>>]_vars

\* A run of two parentheticals with different contents has just been scanned:
\* its segment has three candidates, and none of them keeps the first content
\* without the second.
C4_Witness ==
    /\ pc = "scan"
    /\ Len(group) = 2
    /\ i > 2
    /\ group = SubSeq(tokens, i - 2, i - 1)
    /\ segments # <<>>
    /\ Len(segments[Len(segments)]) = 3
    /\ Contents(group)[1] # <<>>
    /\ Contents(group)[2] # <<>>
    /\ Contents(group)[1] # Contents(group)[2]
    /\ Contents(group)[1] \notin Range(segments[Len(segments)])

\* A sequential program takes its next step as long as it has one.
SpecFair == Spec /\ WF_vars(Next)

\* The first occurrence of each element of a list, in order.
FirstOccurrences(xs) ==
    LET firsts == SelectSeq([n \in 1..Len(xs) |-> n],
                            LAMBDA n : \A m \in 1..(n - 1) : xs[m] # xs[n])
    IN [n \in 1..Len(firsts) |-> xs[firsts[n]]]

\* The ways to write t as prefix ( content ) suffix with no parenthesis in
\* prefix and content: none, or the one at the leftmost group.
GroupSplits(t) ==
    {<<a, b>> \in (1..Len(t)) \X (1..Len(t)) :
        /\ a < b
        /\ t[a] = "("
        /\ t[b] = ")"
        /\ \A n \in 1..(b - 1) : n # a => ~IsParen(t[n])}

HasGroup(t) == GroupSplits(t) # {}

\* prefix + content + suffix: the leftmost group kept.
GroupKept(t) ==
    LET ab == CHOOSE x \in GroupSplits(t) : TRUE
    IN SubSeq(t, 1, ab[1] - 1) \o SubSeq(t, ab[1] + 1, ab[2] - 1)
           \o SubSeq(t, ab[2] + 1, Len(t))

\* prefix + suffix: the leftmost group dropped.
GroupDropped(t) ==
    LET ab == CHOOSE x \in GroupSplits(t) : TRUE
    IN SubSeq(t, 1, ab[1] - 1) \o SubSeq(t, ab[2] + 1, Len(t))

\* The candidates as C5 states them: those with the group kept, then those with
\* the group dropped, a string without a group resolving to itself.
RECURSIVE ResolvedAll(_)
ResolvedAll(t) ==
    IF ~HasGroup(t) THEN <<t>>
    ELSE FirstOccurrences(ResolvedAll(GroupKept(t)) \o ResolvedAll(GroupDropped(t)))

\* The candidates when an empty prefix + suffix contributes none.
RECURSIVE Resolved(_)
Resolved(t) ==
    IF ~HasGroup(t) THEN <<t>>
    ELSE FirstOccurrences(Resolved(GroupKept(t))
                          \o (IF GroupDropped(t) = <<>> THEN <<>>
                              ELSE Resolved(GroupDropped(t))))

\* Every keep/drop choice for the groups of a token.
RECURSIVE Choices(_)
Choices(t) ==
    IF ~HasGroup(t) THEN {t}
    ELSE Choices(GroupKept(t)) \cup Choices(GroupDropped(t))

\* process_attached_parenthetical(tokens[i - 1]) has just returned into the
\* last segment.
AttachedDone ==
    /\ pc = "scan"
    /\ i > 1
    /\ is_attached_parenthetical(tokens[i - 1])

TestToken == <<"a", "(", "a", ")", "x", "(", "b", ")", "(", "c", ")">>

\* C5 as stated: the candidates of an attached token with a leftmost group are
\* those of prefix+content+suffix followed by those of prefix+suffix, without
\* duplicates, and they are every keep/drop choice for its groups.
C5_EveryChoice ==
    (AttachedDone /\ HasGroup(tokens[i - 1])) =>
        /\ segments[Len(segments)] = ResolvedAll(tokens[i - 1])
        /\ Range(segments[Len(segments)]) = Choices(tokens[i - 1])

\* C5 without the cases the code departs in: for an attached token without a
\* line break that has a leftmost group, the candidates are those of
\* prefix+content+suffix followed by those of prefix+suffix when prefix+suffix
\* is not empty, without duplicates; only the empty string can be missing
\* among the keep/drop choices (8 candidates for "a(a)x(b)(c)").
C5_NonEmptyChoices ==
    (AttachedDone /\ HasGroup(tokens[i - 1]) /\ ~Contains(tokens[i - 1], "\n")) =>
        LET t == tokens[i - 1]
            candidates == segments[Len(segments)]
        IN /\ candidates = Resolved(t)
           /\ Choices(t) \ {<<>>} \subseteq Range(candidates)
           /\ Range(candidates) \subseteq Choices(t)
           /\ t = TestToken => Len(candidates) = 8

\* The token of the test with three groups has been resolved into its eight
\* candidates.
C5_Witness ==
    /\ AttachedDone
    /\ tokens[i - 1] = TestToken
    /\ Len(segments[Len(segments)]) = 8
    /\ Cardinality(Choices(TestToken)) = 8

\* Each call of process_attached_parenthetical gets a token shorter than its
\* caller's, and dropping a group never gives the token back.
CallsShrink ==
    /\ \A n \in 2..Len(calls) : Len(calls[n].token) < Len(calls[n - 1].token)
    /\ \A n \in 1..Len(calls) :
           LET match == GroupMatch(calls[n].token)
           IN match.matched =>
                  /\ match.prefix \o match.suffix # calls[n].token
                  /\ Len(match.prefix \o match.content \o match.suffix)
                         < Len(calls[n].token)
                  /\ Len(match.prefix \o match.suffix) < Len(calls[n].token)

\* Each iteration of the token scan and of the slash scan advances the index.
ScansAdvance ==
    /\ (pc = "scan" /\ pc' \in {"scan", "call"}) => (i' > i \/ pc' = "call")
    /\ (pc = "call" /\ pc' = "scan") => i' > i
    /\ (pc = "slash" /\ pc' = "slash") => i' > i
    /\ pc' = "call" => calls' # <<>>

\* C6: generate_combinations ends with a list for every input: the recursive
\* calls get strictly shorter tokens, the drop branch never reproduces its
\* token, both scans advance their index in every iteration, and the call
\* returns.
C6_Terminates ==
    /\ []CallsShrink
    /\ [][ScansAdvance]_vars
    /\ <>(pc = "done")

\* A call made by the drop branch is running two levels below the first call.
C6_Witness ==
    /\ pc = "call"
    /\ Len(calls) >= 3
    /\ \E n \in 1..Len(calls) : calls[n].at = "dropped"

\* C7: no token has a whitespace character where the number of "(" minus the
\* number of ")" seen so far is not greater than 0.
C7_SplitOutsideGroups ==
    pc # "start" =>
        \A n \in 1..Len(tokens) : \A m \in 1..Len(tokens[n]) :
            IsSpace(tokens[n][m]) => Depth(tokens[n], m) > 0

\* The number of words of the run w1 / w2 / ... that starts at the word ws[n].
RECURSIVE RunWords(_, _)
RunWords(ws, n) ==
    IF n + 2 <= Len(ws) /\ ws[n + 1] = <<"/">> /\ ws[n + 2] # <<"/">>
    THEN 1 + RunWords(ws, n + 2)
    ELSE 1

\* The segments C8 describes, from ws[n] on: a maximal run w1 / ... / wk gives
\* the segment <<w1, ..., wk>>, any other word a segment of its own.
RECURSIVE RunSegments(_, _)
RunSegments(ws, n) ==
    IF n > Len(ws) THEN <<>>
    ELSE LET run == IF ws[n] = <<"/">> THEN 1 ELSE RunWords(ws, n)
         IN <<[j \in 1..run |-> ws[n + 2 * (j - 1)]]>>
                \o RunSegments(ws, n + 2 * run - 1)

\* One candidate of each segment, in the order of the segments.
RECURSIVE Selections(_)
Selections(segs) ==
    IF segs = <<>> THEN {<<>>}
    ELSE {<<w>> \o rest : w \in Range(Head(segs)), rest \in Selections(Tail(segs))}

\* The phrases of the cross product of the segments C8 describes.
RunPhrases(p) == {Join(sel, <<" ">>) : sel \in Selections(RunSegments(Split(p), 1))}

\* Every "/" word stands between two words that are not "/".
SlashesBetweenWords(ws) ==
    \A n \in 1..Len(ws) :
        ws[n] = <<"/">> =>
            /\ 1 < n
            /\ n < Len(ws)
            /\ ws[n - 1] # <<"/">>
            /\ ws[n + 1] # <<"/">>

\* The slash scan of intermediate_phrases[k - 1] has just ended.
SlashDone == pc = "phrases" /\ k > 1

\* C8 as stated: for every intermediate phrase the slash segments are the
\* maximal runs w1 / ... / wk, as <<w1, ..., wk>>, and the single words outside
\* them, in the order of the words, and its final phrases are exactly their
\* cross product.
C8_EveryPhrase ==
    /\ SlashDone =>
           /\ segments = RunSegments(Split(intermediate_phrases[k - 1]), 1)
           /\ RunPhrases(intermediate_phrases[k - 1]) \subseteq final_combinations
    /\ pc = "done" =>
           final_combinations
               = UNION {RunPhrases(intermediate_phrases[n]) :
                           n \in 1..Len(intermediate_phrases)}

\* C8 without the cases the code departs in: the same, for the intermediate
\* phrases in which every "/" word stands between two words that are not "/".
C8_SlashesBetweenWords ==
    /\ (SlashDone /\ SlashesBetweenWords(Split(intermediate_phrases[k - 1]))) =>
           /\ segments = RunSegments(Split(intermediate_phrases[k - 1]), 1)
           /\ RunPhrases(intermediate_phrases[k - 1]) \subseteq final_combinations
           /\ \A n \in 1..Len(segments) : <<"/">> \notin Range(segments[n])
    /\ (/\ pc = "done"
        /\ \A n \in 1..Len(intermediate_phrases) :
               SlashesBetweenWords(Split(intermediate_phrases[n]))) =>
           final_combinations
               = UNION {RunPhrases(intermediate_phrases[n]) :
                           n \in 1..Len(intermediate_phrases)}

\* A phrase with two runs of alternatives next to each other has been scanned.
C8_Witness ==
    /\ SlashDone
    /\ SlashesBetweenWords(Split(intermediate_phrases[k - 1]))
    /\ Len(segments) >= 2
    /\ Len(segments[1]) >= 2
    /\ Len(segments[2]) >= 2
    /\ Cardinality(final_combinations) >= 4

IsBracket(c) == c \in opening \cup closing

\* The number of positions 1..n of s that hold the character c.
Count(s, c, n) == Cardinality({m \in 1..n : s[m] = c})

\* In every prefix of s the closers cl do not outnumber the openers op, and
\* over the whole of s they are equal in number.
BalancedFor(s, op, cl) ==
    /\ \A n \in 1..Len(s) : Count(s, cl, n) <= Count(s, op, n)
    /\ Count(s, cl, Len(s)) = Count(s, op, Len(s))

\* C9: remove_unmatched_brackets returns its input with only bracket
\* characters deleted, the other characters kept in order, and the result is
\* balanced for each of (), [] and {}.
C9_BalancedDeletion ==
    pc = "rebuilt" =>
        /\ \E deleted \in SUBSET {n \in 1..Len(phrase) : IsBracket(phrase[n])} :
               result = KeepFrom(phrase, 1, (1..Len(phrase)) \ deleted)
        /\ SelectSeq(result, LAMBDA c : ~IsBracket(c))
               = SelectSeq(phrase, LAMBDA c : ~IsBracket(c))
        /\ \A cl \in closing : BalancedFor(result, pairs(cl), cl)

\* A closer met an opener of another type, an opener stayed open, and a
\* matched pair is returned.
C9_Witness ==
    /\ pc = "rebuilt"
    /\ \E n \in unmatched : phrase[n] \in closing /\ n > 1 /\ phrase[n - 1] \in opening
    /\ \E n \in unmatched : phrase[n] \in opening
    /\ \E n \in 1..Len(result) : IsBracket(result[n])
    /\ \E n \in 1..Len(result) : ~IsBracket(result[n])

\* C10: the lines sort.py's process_file prints to standard output are
\* pairwise distinct.
C10_PrintedDistinct ==
    \A m, n \in 1..Len(stdout) : m # n => stdout[m] # stdout[n]

\* Line m of the file opens a block, closes a block.
IsTop(m) == StartsWith(Strip(lines[m]), TransTop)

IsBottom(m) == ~IsTop(m) /\ StartsWith(Strip(lines[m]), TransBottom)

\* The last opening line among the first n lines, 0 when there is none.
LastTop(n) ==
    LET tops == {m \in 1..n : IsTop(m)}
    IN IF tops = {} THEN 0 ELSE CHOOSE m \in tops : \A l \in tops : m >= l

\* The words of the lines a..b that are lines of the language lang.
Collected(lang, a, b) ==
    UNION {LineWords(Strip(lines[m])) :
              m \in {l \in a..b : LineLanguage(Strip(lines[l])) = lang}}

\* The blocks among the first n lines that an opening line starts and a
\* closing line ends, with neither in between.
CompleteBlocks(n) ==
    {ab \in (1..n) \X (1..n) :
        /\ ab[1] < ab[2]
        /\ IsTop(ab[1])
        /\ IsBottom(ab[2])
        /\ \A m \in (ab[1] + 1)..(ab[2] - 1) : ~IsTop(m) /\ ~IsBottom(m)}

\* The pairs of lang1 and lang2 words of the complete blocks.
BlockPairs(n) ==
    UNION {Collected(lang1, ab[1] + 1, ab[2] - 1)
               \X Collected(lang2, ab[1] + 1, ab[2] - 1) : ab \in CompleteBlocks(n)}

WordSetsEmptyOutside == ~in_block => (lang1_words = {} /\ lang2_words = {})

\* Pairs are appended only by a closing line read while in_block is true, and
\* they pair lang1 and lang2 words of the lines since the last opening line.
AppendsAtBottom ==
    word_pairs' # word_pairs =>
        /\ in_block
        /\ line_count' = line_count + 1
        /\ IsBottom(line_count')
        /\ LastTop(line_count) > 0
        /\ Len(word_pairs') > Len(word_pairs)
        /\ SubSeq(word_pairs', 1, Len(word_pairs)) = word_pairs
        /\ \A n \in (Len(word_pairs) + 1)..Len(word_pairs') :
               /\ word_pairs'[n][1]
                      \in Collected(lang1, LastTop(line_count) + 1, line_count)
               /\ word_pairs'[n][2]
                      \in Collected(lang2, LastTop(line_count) + 1, line_count)

\* C11: a pair is appended to word_pairs only when a closing line is read
\* while in_block is true, and pairs a lang1 word with a lang2 word of the
\* lines read since the last opening line; while in_block is false both word
\* sets are empty; so every pair comes from a block that was opened and closed
\* with no opening line in between, never from lines outside a block, from a
\* restarted block or from a block the end of the file cuts off.
C11_PairsFromBlocks ==
    /\ []WordSetsEmptyOutside
    /\ [][AppendsAtBottom]_vars
    /\ [](Range(word_pairs) \subseteq BlockPairs(line_count))

\* A file has been read in which a block with lang1 words was restarted, and
\* the pairs of a later block hold none of those words.
C11_Witness ==
    /\ pc = "extracted"
    /\ word_pairs # <<>>
    /\ \E a, b \in 1..Len(lines) :
           /\ a < b
           /\ IsTop(a)
           /\ IsTop(b)
           /\ \A m \in (a + 1)..(b - 1) : ~IsTop(m) /\ ~IsBottom(m)
           /\ \E w \in Collected(lang1, a + 1, b - 1) :
                  \A n \in 1..Len(word_pairs) : word_pairs[n][1] # w

====
